---- MODULE Spec2Model ----
(***************************************************************************)
(* The streaming client of language_roleplay (frontend App component):     *)
(* startSession(), send() and the read loop that reassembles the           *)
(* line-delimited frame stream into the messages list.  The legacy client  *)
(* (the minimal App that concatenates `response` fields) is modelled next  *)
(* to it, on the same messages, text and sessionId.                        *)
(*                                                                         *)
(* Text is a sequence of one-character strings.  The wire alphabet stands  *)
(* for JSON text as follows:                                               *)
(*   "\n"            the line terminator the client splits on              *)
(*   " "             white space (removed by trim, ignored by JSON.parse)  *)
(*   "{" tag .. "}"  a JSON object; tag is the value of "type"             *)
(*                   (r reply, t translation, f feedback, d done,          *)
(*                   e error, u some other type), the characters after it  *)
(*                   are the value of "text" ("message" for an error)      *)
(*   "{" "p" .. "}"  a JSON object without "type" whose "response" is the  *)
(*                   characters after p (the chunks of the legacy client)  *)
(*   "n"             the JSON literal null (valid JSON, not a record)      *)
(* Anything else is not JSON: a proper prefix of an object never parses.   *)
(***************************************************************************)
EXTENDS Integers, Sequences, FiniteSets, TLC

VARIABLES
  messages,        \* useState([]) : the conversation list
  text,            \* useState('') : the input box
  loading,         \* useState(false)
  sessionId,       \* useState(null)
  sessionStarted,  \* useState(false)
  sessionError,    \* useState('')
  inFlight,        \* create-session requests awaiting their response
  pc,              \* position of send(): "idle", "fetch" (await fetch), "read" (await reader.read())
  buffer,          \* send()'s local `buffer`
  pending,         \* characters written by the server and not yet read
  sent,            \* history: the lines the server wrote for this response
  open,            \* history: the last line of `sent` was written without "\n"
  delivered,       \* history: number of characters of this response read so far
  midSplit,        \* history: a chunk of this response ended inside a line
  cur,             \* history: index of the placeholder this send() appended
  exit,            \* history: how the last send() returned: "none", "eof", "failed"
  nextId,          \* history: identity of the next message object created
  sends,           \* number of accepted send() calls
  emitted,         \* number of lines written by the server over all responses
  calls            \* legacy client: the locals and the position of each send() call

vars == <<messages, text, loading, sessionId, sessionStarted, sessionError,
          inFlight, pc, buffer, pending, sent, open,
          delivered, midSplit, cur, exit, nextId, sends, emitted, calls>>

\* ------------------------------------------------------------------ bounds
MaxInFlight == 2
MaxSends == 2
MaxLines == 3
MaxChunk == 3
MaxCalls == 2

\* ------------------------------------------------------------------ values
NL == "\n"
Null == <<"null">>
Undefined == <<"undefined">>
Empty == <<>>
FailedToSend == <<"Failed to send message">>
AllFieldsRequired == <<"All fields are required.">>
FailedToStart == <<"Failed to start session">>
NoSessionId == <<"Backend returned no session id.">>
NetworkError == <<"Network error starting session">>

\* ------------------------------------------------------------ text helpers
IsWhite(c) == c = " " \/ c = NL

RECURSIVE TrimStart(_)
TrimStart(s) ==
  IF s # <<>> /\ IsWhite(Head(s)) THEN TrimStart(Tail(s)) ELSE s

RECURSIVE TrimEnd(_)
TrimEnd(s) ==
  IF s # <<>> /\ IsWhite(s[Len(s)]) THEN TrimEnd(SubSeq(s, 1, Len(s) - 1)) ELSE s

\* String.prototype.trim
Trim(s) == TrimEnd(TrimStart(s))

\* buffer.split('\n'): always at least one element, the last one being the
\* text after the last terminator.
RECURSIVE SplitFrom(_, _, _)
SplitFrom(s, line, acc) ==
  IF s = <<>> THEN Append(acc, line)
  ELSE IF Head(s) = NL THEN SplitFrom(Tail(s), <<>>, Append(acc, line))
  ELSE SplitFrom(Tail(s), Append(line, Head(s)), acc)

Split(s) == SplitFrom(s, <<>>, <<>>)

Front(s) == SubSeq(s, 1, Len(s) - 1)
Last(s) == s[Len(s)]

\* ------------------------------------------------------------- JSON.parse
Tags == {"r", "t", "f", "d", "e", "u", "p"}
PayloadChars == {"a", "b", "m"}

TypeOfTag(c) ==
  CASE c = "r" -> <<"reply">>
    [] c = "t" -> <<"translation">>
    [] c = "f" -> <<"feedback">>
    [] c = "d" -> <<"done">>
    [] c = "e" -> <<"error">>
    [] c = "p" -> Undefined
    [] OTHER -> <<"other">>

\* JSON.parse(line): white space around the value is skipped; an object
\* yields its fields (an absent field reads as undefined), null yields null,
\* anything else throws a SyntaxError.
JSONParse(line) ==
  LET t == Trim(line)
      n == Len(t)
      inner == SubSeq(t, 2, n - 1)
  IN IF t = <<"n">> THEN [kind |-> "null"]
     ELSE IF n >= 2 /\ t[1] = "{" /\ t[n] = "}" /\
             (inner = <<>> \/
                (inner[1] \in Tags /\
                 \A i \in 2..Len(inner) : inner[i] \in PayloadChars))
     THEN IF inner = <<>>
          THEN [kind |-> "object", type |-> Undefined, text |-> Undefined,
                message |-> Undefined, response |-> Undefined]
          ELSE [kind |-> "object",
                type |-> TypeOfTag(inner[1]),
                text |-> IF inner[1] \in {"r", "t", "f"} THEN Tail(inner) ELSE Undefined,
                message |-> IF inner[1] = "e" THEN Tail(inner) ELSE Undefined,
                response |-> IF inner[1] = "p" THEN Tail(inner) ELSE Undefined]
     ELSE [kind |-> "syntaxError"]

\* ------------------------------------------------------- message objects
\* variant: the user message does not carry the text
UserMessageBlank(id, t) ==
  [role |-> "user", id |-> id, text |-> Empty, reply |-> Undefined,
   translation |-> Undefined, feedback |-> Undefined, status |-> Undefined,
   error |-> Undefined]

UserMessage(id, t) ==
  [role |-> "user", id |-> id, text |-> t, reply |-> Undefined,
   translation |-> Undefined, feedback |-> Undefined, status |-> Undefined,
   error |-> Undefined]

\* variant: the placeholder is created as pending
AssistantMessagePending(id) ==
  [role |-> "assistant", id |-> id, text |-> Undefined, reply |-> Empty,
   translation |-> Empty, feedback |-> Empty, status |-> "pending",
   error |-> Undefined]

AssistantMessage(id) ==
  [role |-> "assistant", id |-> id, text |-> Undefined, reply |-> Empty,
   translation |-> Empty, feedback |-> Empty, status |-> "loading",
   error |-> Undefined]

\* variant: an absent initial translation is stored as it is
InitialMessageRaw(id, reply, translation) ==
  [role |-> "assistant", id |-> id, text |-> Undefined, reply |-> reply,
   translation |-> translation,
   feedback |-> Empty, status |-> "done", error |-> Undefined]

InitialMessage(id, reply, translation) ==
  [role |-> "assistant", id |-> id, text |-> Undefined, reply |-> reply,
   translation |-> IF translation = Undefined THEN Empty ELSE translation,
   feedback |-> Empty, status |-> "done", error |-> Undefined]

\* ------------------------------------------------------ frame application
\* variant: the payload is appended to the field
SetReplyAppends(msgs, data) == [msgs EXCEPT ![Len(msgs)].reply = @ \o data.text]

SetReply(msgs, data) == [msgs EXCEPT ![Len(msgs)].reply = data.text]

\* variant: the translation is also shown as the reply
SetTranslationOverReply(msgs, data) ==
  [msgs EXCEPT ![Len(msgs)].translation = data.text, ![Len(msgs)].reply = data.text]

\* variant: a content frame also marks the message as streaming
SetTranslationStreaming(msgs, data) ==
  [msgs EXCEPT ![Len(msgs)].translation = data.text, ![Len(msgs)].status = "streaming"]

SetTranslation(msgs, data) == [msgs EXCEPT ![Len(msgs)].translation = data.text]

\* variant: storing the feedback clears the translation
SetFeedbackClearsTranslation(msgs, data) ==
  [msgs EXCEPT ![Len(msgs)].feedback = data.text, ![Len(msgs)].translation = Empty]

SetFeedback(msgs, data) == [msgs EXCEPT ![Len(msgs)].feedback = data.text]

\* variant: the done frame is not applied
SetDoneIgnored(msgs, data) == msgs

SetDone(msgs, data) == [msgs EXCEPT ![Len(msgs)].status = "done"]

\* variant: the partial reply is cleared when the error is stored
SetErrorClearsReply(msgs, data) ==
  [msgs EXCEPT ![Len(msgs)].status = "error", ![Len(msgs)].error = data.message,
               ![Len(msgs)].reply = Empty]

SetError(msgs, data) ==
  [msgs EXCEPT ![Len(msgs)].status = "error", ![Len(msgs)].error = data.message]

\* variant: a record of another type ends the message
ApplyFrameUnknownEnds(msgs, data) ==
  IF data.type = <<"reply">> THEN SetReply(msgs, data)
  ELSE IF data.type = <<"translation">> THEN SetTranslation(msgs, data)
  ELSE IF data.type = <<"feedback">> THEN SetFeedback(msgs, data)
  ELSE IF data.type = <<"error">> THEN SetError(msgs, data)
  ELSE SetDone(msgs, data)

\* the if / else-if chain on data.type
ApplyFrame(msgs, data) ==
  IF data.type = <<"reply">> THEN SetReply(msgs, data)
  ELSE IF data.type = <<"translation">> THEN SetTranslation(msgs, data)
  ELSE IF data.type = <<"feedback">> THEN SetFeedback(msgs, data)
  ELSE IF data.type = <<"done">> THEN SetDone(msgs, data)
  ELSE IF data.type = <<"error">> THEN SetError(msgs, data)
  ELSE msgs

\* variant: a line that does not decode ends the request as a failure
DecodeFailureAborts(msgs, line) ==
  [msgs EXCEPT ![Len(msgs)].status = "error", ![Len(msgs)].error = FailedToSend]

\* catch (e) { console.warn('Failed to parse line:', line, e) }
DecodeFailure(msgs, line) == msgs

\* one iteration of `for (const line of lines)`; reading .type of null
\* throws inside the try, as a SyntaxError does
ProcessLine(msgs, line) ==
  IF Trim(line) = <<>> THEN msgs
  ELSE LET data == JSONParse(line)
       IN IF data.kind = "object" THEN ApplyFrame(msgs, data)
          ELSE DecodeFailure(msgs, line)

RECURSIVE ProcessLines(_, _)
ProcessLines(msgs, lines) ==
  IF lines = <<>> THEN msgs
  ELSE ProcessLines(ProcessLine(msgs, Head(lines)), Tail(lines))

\* variant: the text after the last terminator is thrown away
RemainderDropped(lines) == <<>>

\* buffer = lines.pop()
Remainder(lines) == Last(lines)

\* variant: the lines already decoded stay in the buffer
ProcessChunkKeepsAll(msgs, buf, chunk) ==
  LET lines == Split(buf \o chunk)
  IN <<ProcessLines(msgs, Front(lines)), buf \o chunk>>

\* the body of the while loop for one chunk: <<messages, buffer>> afterwards
ProcessChunk(msgs, buf, chunk) ==
  LET lines == Split(buf \o chunk)
  IN <<ProcessLines(msgs, Front(lines)), Remainder(lines)>>

\* "Process any remaining buffer": only a reply frame is applied
ProcessRemaining(msgs, buf) ==
  IF Trim(buf) = <<>> THEN msgs
  ELSE LET data == JSONParse(buf)
       IN IF data.kind = "object" /\ data.type = <<"reply">>
          THEN SetReply(msgs, data)
          ELSE msgs

\* variant: the failed message is replaced by an empty one
SynthesizeErrorResets(msgs) ==
  [msgs EXCEPT ![Len(msgs)] =
     [AssistantMessage(@.id) EXCEPT !.status = "error", !.error = FailedToSend]]

\* catch (err): the last message is marked as failed
SynthesizeError(msgs) ==
  [msgs EXCEPT ![Len(msgs)].status = "error", ![Len(msgs)].error = FailedToSend]

\* ------------------------------------------------------------- the server
\* What the backend may write on one line of the response body.
ContentTypes == {"reply", "translation", "feedback"}
TerminalTypes == {"done", "error"}

Lines ==
  { [type |-> "reply", text |-> <<"a">>],
    [type |-> "reply", text |-> <<"b">>],
    [type |-> "translation", text |-> <<"a">>],
    [type |-> "feedback", text |-> <<"a">>],
    [type |-> "done", text |-> Undefined],
    [type |-> "error", text |-> <<"m">>],
    [type |-> "other", text |-> Undefined],
    [type |-> "untyped", text |-> Undefined],
    [type |-> "null", text |-> Undefined],
    [type |-> "blank", text |-> Undefined],
    [type |-> "empty", text |-> Undefined],
    [type |-> "truncated", text |-> Undefined] }

\* The wire form of a line (without its terminator).
Encode(l) ==
  CASE l.type = "reply" -> <<"{", "r">> \o l.text \o <<"}">>
    [] l.type = "translation" -> <<"{", "t">> \o l.text \o <<"}">>
    [] l.type = "feedback" -> <<"{", "f">> \o l.text \o <<"}">>
    [] l.type = "done" -> <<"{", "d", "}">>
    [] l.type = "error" -> <<"{", "e">> \o l.text \o <<"}">>
    [] l.type = "other" -> <<"{", "u", "}">>
    [] l.type = "untyped" -> <<"{", "}">>
    [] l.type = "empty" -> <<>>
    [] l.type = "response" -> <<"{", "p">> \o l.text \o <<"}">>
    [] l.type = "null" -> <<"n">>
    [] l.type = "blank" -> <<" ">>
    [] OTHER -> <<"{", "r", "a">>

\* ---------------------------------------------------- legacy send() calls
\* The send() calls of the legacy client that may run at the same time
\* (it has no in-flight guard).
Calls == 1..MaxCalls

\* A call that is not running.  pc, buffer and assistantText are the
\* position and the locals of send(); pending is what the server has
\* written to this call's response and the client has not read; the rest is
\* history: the lines written, whether the last one lacks its terminator,
\* whether a chunk ended inside a line, the identity of the assistant
\* message the call appended, how the call returned.
IdleCall ==
  [pc |-> "idle", buffer |-> <<>>, assistantText |-> <<>>, pending |-> <<>>,
   sent |-> <<>>, open |-> FALSE, midSplit |-> FALSE, own |-> 0, exit |-> "none"]

\* ------------------------------------------------------------------- Init
Init ==
  /\ messages = <<>>
  /\ text = Empty
  /\ loading = FALSE
  /\ sessionId = Null
  /\ sessionStarted = FALSE
  /\ sessionError = Empty
  /\ inFlight = {}
  /\ pc = "idle"
  /\ buffer = <<>>
  /\ pending = <<>>
  /\ sent = <<>>
  /\ open = FALSE
  /\ delivered = 0
  /\ midSplit = FALSE
  /\ cur = 0
  /\ exit = "none"
  /\ nextId = 1
  /\ sends = 0
  /\ emitted = 0
  /\ calls = [c \in Calls |-> IdleCall]

sessionVars == <<sessionId, sessionStarted, sessionError, inFlight>>
streamVars == <<buffer, pending, sent, open, delivered, midSplit, emitted>>
sendVars == <<pc, cur, exit, sends>>

\* ------------------------------------------------------------ the session
\* startSession() up to its await: the form is rendered while
\* sessionStarted is false, and the button is not disabled by a request
\* already in flight.  r names the request.
StartSession(fieldsOk, r) ==
  /\ ~sessionStarted
  /\ r \notin inFlight
  /\ IF fieldsOk
     THEN /\ sessionError' = Empty
          /\ inFlight' = inFlight \cup {r}
     ELSE /\ sessionError' = AllFieldsRequired
          /\ UNCHANGED inFlight
  /\ UNCHANGED <<messages, text, loading, sessionId, sessionStarted, nextId>>
  /\ UNCHANGED <<streamVars, sendVars, calls>>

\* data.session_id of the response to request r
SessionIdOf(r) == <<"session", r>>

\* What a create-session response may be.
Responses ==
  { [kind |-> "notOk", initial |-> Undefined, translation |-> Undefined],
    [kind |-> "noId", initial |-> Undefined, translation |-> Undefined],
    [kind |-> "netErr", initial |-> Undefined, translation |-> Undefined],
    [kind |-> "ok", initial |-> Undefined, translation |-> Undefined],
    [kind |-> "ok", initial |-> <<"i">>, translation |-> Undefined],
    [kind |-> "ok", initial |-> <<"i">>, translation |-> <<"j">>] }

\* variant: the response is stored without being checked (the earlier
\* startSession, which had no error handling)
StartSessionResponseUnchecked(r, resp) ==
  /\ r \in inFlight
  /\ inFlight' = inFlight \ {r}
  /\ IF resp.kind = "netErr"
     THEN UNCHANGED <<sessionId, sessionStarted>>
     ELSE /\ sessionId' = (IF resp.kind = "ok" THEN SessionIdOf(r) ELSE Null)
          /\ sessionStarted' = TRUE
  /\ UNCHANGED <<messages, nextId, sessionError, text, loading>>
  /\ UNCHANGED <<streamVars, sendVars, calls>>

\* startSession() after its await, for request r (the backend gives each
\* request a session identifier of its own).
StartSessionResponse(r, resp) ==
  /\ r \in inFlight
  /\ inFlight' = inFlight \ {r}
  /\ IF resp.kind = "ok"
     THEN /\ sessionId' = SessionIdOf(r)
          /\ IF resp.initial # Undefined
             THEN /\ messages' = <<InitialMessage(nextId, resp.initial, resp.translation)>>
                  /\ nextId' = nextId + 1
             ELSE UNCHANGED <<messages, nextId>>
          /\ sessionStarted' = TRUE
          /\ UNCHANGED sessionError
     ELSE /\ sessionError' = (CASE resp.kind = "notOk" -> FailedToStart
                                [] resp.kind = "noId" -> NoSessionId
                                [] OTHER -> NetworkError)
          /\ UNCHANGED <<messages, nextId, sessionId, sessionStarted>>
  /\ UNCHANGED <<text, loading>>
  /\ UNCHANGED <<streamVars, sendVars, calls>>

\* --------------------------------------------------------------- the input
Texts == {<<>>, <<" ">>, <<" ", "h">>}

\* onChange of the input box, which is disabled while loading.  The history
\* of the last response is forgotten here.
TypeText(t) ==
  /\ ~loading
  /\ text # t
  /\ text' = t
  /\ sent' = <<>>
  /\ open' = FALSE
  /\ delivered' = 0
  /\ midSplit' = FALSE
  /\ exit' = "none"
  /\ UNCHANGED <<messages, loading, nextId, pc, cur, sends>>
  /\ UNCHANGED <<buffer, pending, emitted, sessionVars, calls>>

\* ------------------------------------------------------------------ send()
\* variant: send() without its check of the session identifier
SendWithoutSession ==
  /\ sends < MaxSends
  /\ IF Trim(text) = <<>> \/ loading THEN UNCHANGED vars
     ELSE /\ text' = Empty
          /\ loading' = TRUE
          /\ messages' = messages \o <<UserMessage(nextId, Trim(text)),
                                        AssistantMessage(nextId + 1)>>
          /\ nextId' = nextId + 2
          /\ cur' = Len(messages) + 2
          /\ pc' = "fetch"
          /\ exit' = "none"
          /\ sends' = sends + 1
          /\ buffer' = <<>>
          /\ pending' = <<>>
          /\ sent' = <<>>
          /\ open' = FALSE
          /\ delivered' = 0
          /\ midSplit' = FALSE
          /\ UNCHANGED <<emitted, sessionVars, calls>>

\* send() up to `await fetch`
Send ==
  /\ sends < MaxSends
  /\ IF Trim(text) = <<>> \/ loading THEN UNCHANGED vars
     ELSE IF sessionId = Null THEN UNCHANGED vars
     ELSE /\ text' = Empty
          /\ loading' = TRUE
          /\ messages' = messages \o <<UserMessage(nextId, Trim(text)),
                                        AssistantMessage(nextId + 1)>>
          /\ nextId' = nextId + 2
          /\ cur' = Len(messages) + 2
          /\ pc' = "fetch"
          /\ exit' = "none"
          /\ sends' = sends + 1
          /\ buffer' = <<>>
          /\ pending' = <<>>
          /\ sent' = <<>>
          /\ open' = FALSE
          /\ delivered' = 0
          /\ midSplit' = FALSE
          /\ UNCHANGED <<emitted, sessionVars, calls>>

\* fetch resolved: resp.body.getReader(), buffer = ''
FetchOk ==
  /\ pc = "fetch"
  /\ pc' = "read"
  /\ buffer' = <<>>
  /\ UNCHANGED <<messages, text, loading, nextId, cur, exit, sends>>
  /\ UNCHANGED <<pending, sent, open, delivered, midSplit, emitted, sessionVars, calls>>

\* catch + finally.  The history of the response ends here.
Failed ==
  /\ messages' = SynthesizeError(messages)
  /\ loading' = FALSE
  /\ pc' = "idle"
  /\ exit' = "failed"
  /\ buffer' = <<>>
  /\ pending' = <<>>
  /\ sent' = <<>>
  /\ open' = FALSE
  /\ delivered' = 0
  /\ midSplit' = FALSE
  /\ UNCHANGED <<text, nextId, cur, sends, emitted, sessionVars, calls>>

\* fetch rejected
FetchFail ==
  /\ pc = "fetch"
  /\ Failed

\* the backend writes one line; a line written without its terminator is
\* the last thing it writes
ServerWrite(l, terminated) ==
  /\ pc = "read"
  /\ ~open
  /\ emitted < MaxLines
  /\ pending' = pending \o Encode(l) \o (IF terminated THEN <<NL>> ELSE <<>>)
  /\ sent' = Append(sent, l)
  /\ open' = ~terminated
  /\ emitted' = emitted + 1
  /\ UNCHANGED <<messages, text, loading, nextId, buffer, delivered, midSplit>>
  /\ UNCHANGED <<sessionVars, sendVars, calls>>

\* The sizes the next chunk may have: up to MaxChunk characters, or all that
\* the backend has written.
ChunkSizes == {k \in 1..Len(pending) : k <= MaxChunk \/ k = Len(pending)}

\* reader.read() resolved with the next k characters
ReadChunk(k) ==
  /\ pc = "read"
  /\ k \in ChunkSizes
  /\ LET r == ProcessChunk(messages, buffer, SubSeq(pending, 1, k))
     IN /\ messages' = r[1]
        /\ buffer' = r[2]
  /\ pending' = SubSeq(pending, k + 1, Len(pending))
  /\ delivered' = delivered + k
  /\ midSplit' = (midSplit \/ (buffer' # <<>> /\ k < Len(pending)))
  /\ UNCHANGED <<text, loading, nextId, sent, open, emitted>>
  /\ UNCHANGED <<sessionVars, sendVars, calls>>

\* variant: the end of the stream leaves loading as it is
ReadEOFKeepsLoading ==
  /\ pc = "read"
  /\ pending = <<>>
  /\ messages' = ProcessRemaining(messages, buffer)
  /\ UNCHANGED loading
  /\ pc' = "idle"
  /\ exit' = "eof"
  /\ buffer' = <<>>
  /\ UNCHANGED <<text, nextId, cur, sends, pending, sent, open, delivered,
                 midSplit, emitted, sessionVars, calls>>

\* reader.read() resolved with done (the backend ended the body after what
\* it wrote): the remaining buffer, then finally
ReadEOF ==
  /\ pc = "read"
  /\ pending = <<>>
  /\ messages' = ProcessRemaining(messages, buffer)
  /\ loading' = FALSE
  /\ pc' = "idle"
  /\ exit' = "eof"
  /\ buffer' = <<>>
  /\ UNCHANGED <<text, nextId, cur, sends, pending, sent, open, delivered,
                 midSplit, emitted, sessionVars, calls>>

\* reader.read() rejected
ReadFail ==
  /\ pc = "read"
  /\ Failed

\* --------------------------------------------------------- specifications
\* One response: the lines the backend writes are drawn from `lines`.
Stream(lines) ==
  \/ FetchOk
  \/ FetchFail
  \/ \E l \in lines, terminated \in BOOLEAN : ServerWrite(l, terminated)
  \/ \E k \in ChunkSizes : ReadChunk(k)
  \/ ReadEOF
  \/ ReadFail

\* The frames of a plain turn: a reply, then done or error.
PlainLines == {l \in Lines : l.type \in {"done", "error"} \/ l = [type |-> "reply", text |-> <<"a">>]}

\* The whole client: any number of create-session requests in flight, up to
\* MaxSends messages sent, responses made of plain frames.
Next ==
  \/ \E fieldsOk \in BOOLEAN, r \in 1..MaxInFlight : StartSession(fieldsOk, r)
  \/ \E r \in inFlight, resp \in Responses : StartSessionResponse(r, resp)
  \/ \E t \in Texts : TypeText(t)
  \/ Send
  \/ Stream(PlainLines)

Spec == Init /\ [][Next]_vars

\* A create-session response that fails, or one that carries the initial
\* assistant turn in full.
FullResponses == {resp \in Responses : resp.kind = "ok" => resp.translation # Undefined}

\* One response stream in full: Start is not pressed again while a
\* create-session request is awaiting its response, the session starts with
\* an initial assistant turn, one message is sent, and the response is made
\* of every kind of line.
NextStream ==
  \/ \E fieldsOk \in BOOLEAN : inFlight = {} /\ StartSession(fieldsOk, 1)
  \/ \E r \in inFlight, resp \in FullResponses : StartSessionResponse(r, resp)
  \/ \E t \in Texts : TypeText(t)
  \/ sends = 0 /\ Send
  \/ Stream(Lines)

SpecStream == Init /\ [][NextStream]_vars

\* The whole client when every request ends: the promise of fetch settles,
\* and the response stream ends or fails (a read that keeps resolving with
\* chunks is bounded by what the backend writes).
SpecLive ==
  /\ Spec
  /\ WF_vars(FetchOk \/ FetchFail)
  /\ WF_vars(ReadEOF \/ ReadFail)

\* ------------------------------------------------------ reference notions
\* The text of a whole response: every line followed by its terminator,
\* except an unterminated last line.
RECURSIVE WireOf(_, _)
WireOf(ls, unterminated) ==
  IF ls = <<>> THEN <<>>
  ELSE IF Len(ls) = 1
       THEN Encode(ls[1]) \o (IF unterminated THEN <<>> ELSE <<NL>>)
       ELSE Encode(Head(ls)) \o <<NL>> \o WireOf(Tail(ls), unterminated)

RECURSIVE CountNL(_)
CountNL(s) ==
  IF s = <<>> THEN 0
  ELSE (IF Head(s) = NL THEN 1 ELSE 0) + CountNL(Tail(s))

\* The lines of this response read in full, terminator included.
CompleteLines ==
  SubSeq(sent, 1, CountNL(SubSeq(WireOf(sent, open), 1, delivered)))

\* The payload of the last line of `ls` that is a frame of `type`.
RECURSIVE LastText(_, _)
LastText(ls, type) ==
  IF ls = <<>> THEN Empty
  ELSE IF ls[Len(ls)].type = type THEN ls[Len(ls)].text
  ELSE LastText(Front(ls), type)

\* The frames applied when the stream has ended: the complete lines, and an
\* unterminated last line when it is a reply frame.
AppliedAtEnd ==
  IF open /\ sent[Len(sent)].type # "reply" THEN Front(sent) ELSE sent

Terminal(m) == m.status \in {"done", "error"}
NonTerminal(m) == m.role = "assistant" /\ ~Terminal(m)

\* What the claims compare of an assistant message.
Fields(m) == <<m.reply, m.translation, m.feedback, m.status, m.error>>

\* The message obtained by reading `wire` as a single chunk, then the end of
\* the stream.
OneChunk(wire) ==
  LET r == ProcessChunk(<<AssistantMessage(0)>>, <<>>, wire)
  IN ProcessRemaining(r[1], r[2])[1]

IsBad(l) == l.type \in {"null", "truncated"}

\* `ls` without its terminated lines that do not decode.
RECURSIVE WithoutBad(_, _)
WithoutBad(ls, unterminated) ==
  IF ls = <<>> THEN <<>>
  ELSE IF IsBad(Head(ls)) /\ ~(unterminated /\ Len(ls) = 1)
       THEN WithoutBad(Tail(ls), unterminated)
       ELSE <<Head(ls)>> \o WithoutBad(Tail(ls), unterminated)

\* Terminated frames only, exactly one terminal frame, which is the last.
WellFormed ==
  /\ ~open
  /\ sent # <<>>
  /\ \A i \in 1..Len(sent) : sent[i].type \in ContentTypes \cup TerminalTypes
  /\ \A i \in 1..Len(sent) : sent[i].type \in TerminalTypes <=> i = Len(sent)

\* ----------------------------------------------------------------- claims
\* C1: chunk-boundary invariance.  When send() has read a response to its
\* end, however the text was cut into chunks, the assistant message has the
\* reply, translation, feedback, status and error that reading the whole
\* text as one chunk gives.
C1_ChunkInvariance ==
  exit = "eof" => Fields(messages[cur]) = Fields(OneChunk(WireOf(sent, open)))

\* a response of two lines whose reading was cut inside a line
C1_Witness ==
  /\ exit = "eof"
  /\ midSplit
  /\ Len(sent) >= 2
  /\ messages[cur].reply = <<"b">>
  /\ messages[cur].status = "done"

\* C2: exactly one terminal.  When send() returns, the assistant message it
\* created has status done or error.
C2_TerminalOnReturn ==
  exit \in {"eof", "failed"} => Terminal(messages[cur])

\* C3: client transport failure.  When the request or a read fails before
\* a terminal frame was applied, the open message gets status error and a
\* non-empty error description, and keeps its reply, translation and
\* feedback.
C3_TransportFailure ==
  [][(pc # "idle" /\ exit' = "failed" /\ ~Terminal(messages[cur]))
       => /\ messages'[cur].status = "error"
          /\ messages'[cur].error \notin {Empty, Undefined}
          /\ messages'[cur].reply = messages[cur].reply
          /\ messages'[cur].translation = messages[cur].translation
          /\ messages'[cur].feedback = messages[cur].feedback]_vars

\* a read failed after a reply had been received
C3_Witness ==
  /\ exit = "failed"
  /\ messages[cur].reply = <<"a">>
  /\ messages[cur].status = "error"
  /\ messages[cur].error = FailedToSend

\* C4: replace, not append.  Each of reply, translation and feedback is the
\* payload of the most recent applied frame of its type (empty when there
\* was none), in the read loop and after the end of the stream.
C4_ReplaceNotAppend ==
  /\ pc = "read" =>
       /\ messages[cur].reply = LastText(CompleteLines, "reply")
       /\ messages[cur].translation = LastText(CompleteLines, "translation")
       /\ messages[cur].feedback = LastText(CompleteLines, "feedback")
  /\ exit = "eof" =>
       /\ messages[cur].reply = LastText(AppliedAtEnd, "reply")
       /\ messages[cur].translation = LastText(AppliedAtEnd, "translation")
       /\ messages[cur].feedback = LastText(AppliedAtEnd, "feedback")

\* two reply frames have been applied, the second with another payload
C4_Witness ==
  /\ pc = "read"
  /\ Len(CompleteLines) = 2
  /\ sent[1] = [type |-> "reply", text |-> <<"a">>]
  /\ sent[2] = [type |-> "reply", text |-> <<"b">>]
  /\ messages[cur].reply = <<"b">>

\* C5: malformed-line tolerance.  A terminated line that does not decode
\* changes nothing and does not end the loop: the final message is the one
\* of the same response without those lines.
C5_MalformedTolerance ==
  exit = "eof" =>
    Fields(messages[cur]) = Fields(OneChunk(WireOf(WithoutBad(sent, open), open)))

\* a line that does not decode between two frames, both applied
C5_Witness ==
  /\ exit = "eof"
  /\ Len(sent) = 3
  /\ ~open
  /\ sent[1].type = "reply"
  /\ IsBad(sent[2])
  /\ sent[3].type = "done"
  /\ messages[cur].reply = sent[1].text
  /\ messages[cur].status = "done"

\* C6: final state of a well-formed stream.  After a response of terminated
\* frames whose only terminal frame is the last one, the status is the type
\* of that frame and each content field is the payload of the last frame of
\* its type, empty when there was none.
C6_WellFormedFinal ==
  (exit = "eof" /\ WellFormed) =>
    /\ messages[cur].status = sent[Len(sent)].type
    /\ messages[cur].reply = LastText(sent, "reply")
    /\ messages[cur].translation = LastText(sent, "translation")
    /\ messages[cur].feedback = LastText(sent, "feedback")

\* reply, feedback, done
C6_Witness ==
  /\ exit = "eof"
  /\ WellFormed
  /\ Len(sent) = 3
  /\ sent[1].type = "reply"
  /\ sent[2].type = "feedback"
  /\ sent[3].type = "done"
  /\ messages[cur].status = "done"
  /\ messages[cur].feedback = <<"a">>

\* C7: upstream-reported error.  When the last line read in full is an
\* error frame, the status is error, the error description is the frame's
\* message, and reply, translation and feedback are what the frames before
\* it left.
C7_UpstreamError ==
  (pc = "read" /\ CompleteLines # <<>> /\ Last(CompleteLines).type = "error") =>
    /\ messages[cur].status = "error"
    /\ messages[cur].error = Last(CompleteLines).text
    /\ messages[cur].reply = LastText(Front(CompleteLines), "reply")
    /\ messages[cur].translation = LastText(Front(CompleteLines), "translation")
    /\ messages[cur].feedback = LastText(Front(CompleteLines), "feedback")

\* an error frame after a partial reply
C7_Witness ==
  /\ pc = "read"
  /\ Len(CompleteLines) = 2
  /\ sent[1].type = "reply"
  /\ sent[2].type = "error"
  /\ messages[cur].status = "error"
  /\ messages[cur].error = <<"m">>
  /\ messages[cur].reply = sent[1].text

\* C8: terminal status is final.  Once the open message is done or error,
\* nothing that happens later in the same send() changes it.
C8_TerminalIsFinal ==
  [][(pc = "read" /\ Terminal(messages[cur])) => messages'[cur] = messages[cur]]_vars

\* C9: one open message per request in flight.  While a send is in flight
\* exactly one message is non-terminal and it is the last one; when none is
\* in flight no message is non-terminal.
C9_OneOpenMessage ==
  /\ loading =>
       /\ Cardinality({i \in 1..Len(messages) : NonTerminal(messages[i])}) = 1
       /\ NonTerminal(messages[Len(messages)])
  /\ ~loading => \A i \in 1..Len(messages) : ~NonTerminal(messages[i])

\* C10: append-only history.  No step removes, replaces or reorders a
\* message of the list: the list only grows at its end.
C10_AppendOnly ==
  [][/\ Len(messages') >= Len(messages)
     /\ \A i \in 1..Len(messages) : messages'[i].id = messages[i].id]_vars

\* C11: frame target.  A step of a send in flight (a frame application, the
\* remaining buffer, a synthesized error) changes no message but the
\* assistant message that this send created: the list keeps its length and
\* every message at another position is left as it was.
C11_FrameTarget ==
  [][(pc # "idle" /\ inFlight' = inFlight) =>
       /\ Len(messages') = Len(messages)
       /\ \A i \in 1..Len(messages) : i # cur => messages'[i] = messages[i]]_vars

\* ======================================================= the legacy client
\* The minimal App: it creates its session on load, send() has no in-flight
\* guard, and the assistant text is the concatenation of the `response`
\* fields of the lines of the response.
LegacyNetworkError == <<"Network error: ">>

\* { role, text }; id is the identity of the list position it was appended at
LegacyMessage(role, id, t) == [role |-> role, id |-> id, text |-> t]

\* the variables of the current client, which the legacy client does not have
currentVars == <<loading, sessionStarted, sessionError, inFlight, pc, buffer,
                 pending, sent, open, delivered, midSplit, cur, exit>>

\* variant: the updater appends t to the text of the last assistant message
LegacyAppendToLast(msgs, t) ==
  LET found == {i \in 1..Len(msgs) : msgs[i].role = "assistant"}
  IN IF found = {} THEN msgs
     ELSE LET i == CHOOSE j \in found : \A k \in found : k <= j
          IN [msgs EXCEPT ![i] = LegacyMessage("assistant", @.id, @.text \o t)]

\* the updater of setMessages: the last assistant message, searched from the
\* end of the list, is replaced by one carrying the text t
LegacyReplaceLast(msgs, t) ==
  LET found == {i \in 1..Len(msgs) : msgs[i].role = "assistant"}
  IN IF found = {} THEN msgs
     ELSE LET i == CHOOSE j \in found : \A k \in found : k <= j
          IN [msgs EXCEPT ![i] = LegacyMessage("assistant", @.id, t)]

\* variant: the text is the last `response` only
LegacyAccumulateReplaces(assistantText, j) ==
  IF j.response = Undefined THEN <<>> ELSE j.response

\* assistantText += j.response || ''
LegacyAccumulate(assistantText, j) ==
  assistantText \o (IF j.response = Undefined THEN <<>> ELSE j.response)

\* one line inside its try: st is [msgs, assistantText]; reading .response
\* of null throws, as a SyntaxError does, and the catch ignores both
LegacyProcessLine(st, line) ==
  IF Trim(line) = <<>> THEN st
  ELSE LET j == JSONParse(line)
       IN IF j.kind = "object"
          THEN LET t == LegacyAccumulate(st.assistantText, j)
               IN [msgs |-> LegacyReplaceLast(st.msgs, t), assistantText |-> t]
          ELSE st

RECURSIVE LegacyProcessLines(_, _)
LegacyProcessLines(st, lines) ==
  IF lines = <<>> THEN st
  ELSE LegacyProcessLines(LegacyProcessLine(st, Head(lines)), Tail(lines))

\* the body of the while loop for one chunk
LegacyProcessChunk(msgs, call, chunk) ==
  LET lines == Split(call.buffer \o chunk)
      st == LegacyProcessLines([msgs |-> msgs, assistantText |-> call.assistantText],
                               Front(lines))
  IN [msgs |-> st.msgs, assistantText |-> st.assistantText, buffer |-> Last(lines)]

\* "final buffer"
LegacyProcessFinal(msgs, call) ==
  LegacyProcessLine([msgs |-> msgs, assistantText |-> call.assistantText], call.buffer)

\* What Ollama may write on one line: a chunk with a response, a chunk with
\* an empty response, an object without a response, and lines that are not
\* chunks.
OllamaLines ==
  { [type |-> "response", text |-> <<"a">>],
    [type |-> "response", text |-> <<"b">>],
    [type |-> "response", text |-> <<>>],
    [type |-> "other", text |-> Undefined],
    [type |-> "null", text |-> Undefined],
    [type |-> "blank", text |-> Undefined],
    [type |-> "truncated", text |-> Undefined] }

\* useEffect on load: the create-session response has arrived
LegacyCreateSession ==
  /\ sessionId = Null
  /\ sessionId' = SessionIdOf(1)
  /\ UNCHANGED <<messages, text, nextId, sends, emitted, calls, currentVars>>

\* onChange of the input box, which is never disabled
LegacyTypeText(t) ==
  /\ text # t
  /\ text' = t
  /\ UNCHANGED <<messages, sessionId, nextId, sends, emitted, calls, currentVars>>

\* send() up to `await fetch`, as call c
LegacySend(c) ==
  /\ calls[c].pc = "idle"
  /\ \A d \in Calls : d < c => calls[d].pc # "idle"
  /\ sends < MaxSends
  /\ IF Trim(text) = <<>> THEN UNCHANGED vars
     ELSE IF sessionId = Null THEN UNCHANGED vars
     ELSE /\ messages' = Append(messages, LegacyMessage("user", nextId, text))
          /\ nextId' = nextId + 1
          /\ sends' = sends + 1
          /\ calls' = [calls EXCEPT ![c] = [IdleCall EXCEPT !.pc = "fetch"]]
          /\ UNCHANGED <<text, sessionId, emitted, currentVars>>

\* fetch resolved: reader, buffer = '', assistantText = '', and the empty
\* assistant message is appended
LegacyFetchOk(c) ==
  /\ calls[c].pc = "fetch"
  /\ messages' = Append(messages, LegacyMessage("assistant", nextId, <<>>))
  /\ nextId' = nextId + 1
  /\ calls' = [calls EXCEPT ![c].pc = "read", ![c].own = nextId]
  /\ UNCHANGED <<text, sessionId, sends, emitted, currentVars>>

\* catch (err), then setText('')
LegacyFailed(c) ==
  /\ messages' = Append(messages, LegacyMessage("assistant", nextId, LegacyNetworkError))
  /\ nextId' = nextId + 1
  /\ text' = Empty
  /\ calls' = [calls EXCEPT ![c].pc = "idle", ![c].exit = "failed",
                            ![c].buffer = <<>>, ![c].pending = <<>>]
  /\ UNCHANGED <<sessionId, sends, emitted, currentVars>>

\* fetch rejected
LegacyFetchFail(c) ==
  /\ calls[c].pc = "fetch"
  /\ LegacyFailed(c)

\* the backend forwards one line of call c's response; a line written
\* without its terminator is the last thing it writes
LegacyServerWrite(c, l, terminated) ==
  /\ calls[c].pc = "read"
  /\ ~calls[c].open
  /\ emitted < MaxLines
  /\ calls' = [calls EXCEPT
       ![c].pending = @ \o Encode(l) \o (IF terminated THEN <<NL>> ELSE <<>>),
       ![c].sent = Append(@, l),
       ![c].open = ~terminated]
  /\ emitted' = emitted + 1
  /\ UNCHANGED <<messages, text, sessionId, nextId, sends, currentVars>>

LegacyChunkSizes(c) ==
  {k \in 1..Len(calls[c].pending) : k <= MaxChunk \/ k = Len(calls[c].pending)}

\* reader.read() of call c resolved with the next k characters
LegacyReadChunk(c, k) ==
  /\ calls[c].pc = "read"
  /\ k \in LegacyChunkSizes(c)
  /\ LET r == LegacyProcessChunk(messages, calls[c], SubSeq(calls[c].pending, 1, k))
     IN /\ messages' = r.msgs
        /\ calls' = [calls EXCEPT
             ![c].assistantText = r.assistantText,
             ![c].buffer = r.buffer,
             ![c].pending = SubSeq(@, k + 1, Len(@)),
             ![c].midSplit = (@ \/ (r.buffer # <<>> /\ k < Len(calls[c].pending)))]
  /\ UNCHANGED <<text, sessionId, nextId, sends, emitted, currentVars>>

\* reader.read() of call c resolved with done: the final buffer, then
\* setText('')
LegacyReadEOF(c) ==
  /\ calls[c].pc = "read"
  /\ calls[c].pending = <<>>
  /\ LET r == LegacyProcessFinal(messages, calls[c])
     IN /\ messages' = r.msgs
        /\ calls' = [calls EXCEPT
             ![c].assistantText = r.assistantText,
             ![c].buffer = <<>>,
             ![c].pc = "idle",
             ![c].exit = "eof"]
  /\ text' = Empty
  /\ UNCHANGED <<sessionId, nextId, sends, emitted, currentVars>>

\* reader.read() rejected
LegacyReadFail(c) ==
  /\ calls[c].pc = "read"
  /\ LegacyFailed(c)

\* The response of call c: its lines are drawn from `lines`.
LegacyStream(c, lines) ==
  \/ LegacyFetchOk(c)
  \/ LegacyFetchFail(c)
  \/ \E l \in lines, terminated \in BOOLEAN : LegacyServerWrite(c, l, terminated)
  \/ \E k \in LegacyChunkSizes(c) : LegacyReadChunk(c, k)
  \/ LegacyReadEOF(c)
  \/ LegacyReadFail(c)

\* The legacy client with one send() at a time, its response made of every
\* kind of line.
NextLegacyStream ==
  \/ LegacyCreateSession
  \/ \E t \in Texts : LegacyTypeText(t)
  \/ sends = 0 /\ LegacySend(1)
  \/ LegacyStream(1, OllamaLines)

SpecLegacyStream == Init /\ [][NextLegacyStream]_vars

\* The in-order concatenation of the `response` fields of the lines `ls`
\* (a line without one contributes nothing).
RECURSIVE ConcatResponses(_)
ConcatResponses(ls) ==
  IF ls = <<>> THEN <<>>
  ELSE (IF Head(ls).type = "response" THEN Head(ls).text ELSE <<>>)
         \o ConcatResponses(Tail(ls))

\* The text of the message of identity id.
LegacyTextOf(id) ==
  messages[CHOOSE i \in 1..Len(messages) : messages[i].id = id].text

\* C12: legacy concatenation.  When a send() of the legacy client has read
\* its response to the end, the text of the assistant message it appended is
\* the concatenation, in order, of the `response` fields of the lines that
\* parsed, a last line without terminator included, however the text was cut
\* into chunks.
C12_LegacyConcatenation ==
  calls[1].exit = "eof" =>
    LegacyTextOf(calls[1].own) = ConcatResponses(calls[1].sent)

\* two chunks of text, the second without its terminator, read in pieces
\* that ended inside a line
C12_Witness ==
  /\ calls[1].exit = "eof"
  /\ calls[1].midSplit
  /\ calls[1].open
  /\ calls[1].sent = <<[type |-> "response", text |-> <<"a">>],
                       [type |-> "response", text |-> <<"b">>]>>
  /\ LegacyTextOf(calls[1].own) = <<"a", "b">>

\* The chunks of a plain response.
PlainOllamaLines == {l \in OllamaLines : l.type = "response" /\ l.text # <<>>}

\* The legacy client as it is: up to MaxCalls send() calls at the same time,
\* each reading its own response.
NextLegacy ==
  \/ LegacyCreateSession
  \/ \E t \in Texts : LegacyTypeText(t)
  \/ \E c \in Calls : LegacySend(c)
  \/ \E c \in Calls : LegacyStream(c, PlainOllamaLines)

SpecLegacy == Init /\ [][NextLegacy]_vars

\* C13: final unterminated line.  When the stream ends while the last line
\* has no terminator, the final message is the one the same response gives
\* with the terminator present, whatever the type of that last frame.
C13_FinalLineApplied ==
  (exit = "eof" /\ open) =>
    Fields(messages[cur]) = Fields(OneChunk(WireOf(sent, FALSE)))

\* The status left by the frames `ls`: the type of the last terminal frame,
\* and the status the message was created with when there is none.
RECURSIVE StatusAfter(_)
StatusAfter(ls) ==
  IF ls = <<>> THEN AssistantMessage(0).status
  ELSE IF Last(ls).type \in TerminalTypes THEN Last(ls).type
  ELSE StatusAfter(Front(ls))

Received(n) == SubSeq(WireOf(sent, open), 1, n)

\* The text after the last terminator of s (all of s when it has none).
RECURSIVE AfterLastNL(_)
AfterLastNL(s) ==
  IF s = <<>> \/ s[Len(s)] = NL THEN <<>>
  ELSE Append(AfterLastNL(Front(s)), s[Len(s)])

\* The wire text of the lines numbered from + 1 .. to of this response.
WireLines(from, to) == [i \in 1..(to - from) |-> Encode(sent[from + i])]

\* C16: stream buffer invariant.  Processing a chunk decodes exactly the
\* lines that this chunk completed, each once and in the order of arrival,
\* and leaves in the buffer the text received since the last terminator,
\* which contains no terminator.
C16_BufferInvariant ==
  [][(pc = "read" /\ delivered' > delivered) =>
       LET chunk == SubSeq(pending, 1, delivered' - delivered)
           before == CountNL(Received(delivered))
           after == CountNL(Received(delivered'))
       IN /\ Front(Split(buffer \o chunk)) = WireLines(before, after)
          /\ messages' = ProcessLines(messages, WireLines(before, after))
          /\ buffer' = AfterLastNL(Received(delivered'))
          /\ \A i \in 1..Len(buffer') : buffer'[i] # NL]_vars

\* one line has been decoded and the beginning of the next one is in the
\* buffer
C16_Witness ==
  /\ pc = "read"
  /\ Len(CompleteLines) = 1
  /\ Len(sent) = 2
  /\ midSplit
  /\ buffer = <<"{", "r">>
  /\ messages[cur].reply = sent[1].text

\* The fields of message m2 named in `fields` are those of m.
SameFields(m, m2, fields) == \A f \in fields : m2[f] = m[f]

\* C17: per-frame footprint.  When a step applies exactly one frame, a
\* reply frame leaves translation, feedback and error as they were, a
\* translation frame leaves reply, feedback and error, a feedback frame
\* leaves reply, translation and error, and a done frame leaves reply,
\* translation, feedback and error; the reply frame of an unterminated last
\* line, applied at the end of the stream, leaves translation, feedback and
\* error as well.
C17_FrameFootprint ==
  [][/\ (pc = "read" /\ delivered' > delivered /\
           CountNL(Received(delivered')) = CountNL(Received(delivered)) + 1) =>
          LET l == sent[CountNL(Received(delivered'))]
              m == messages[cur]
              m2 == messages'[cur]
          IN /\ l.type = "reply" => SameFields(m, m2, {"translation", "feedback", "error"})
             /\ l.type = "translation" => SameFields(m, m2, {"reply", "feedback", "error"})
             /\ l.type = "feedback" => SameFields(m, m2, {"reply", "translation", "error"})
             /\ l.type = "done" =>
                  SameFields(m, m2, {"reply", "translation", "feedback", "error"})
     /\ (pc = "read" /\ exit' = "eof" /\ open /\ Last(sent).type = "reply") =>
          SameFields(messages[cur], messages'[cur], {"translation", "feedback", "error"})]_vars

\* a translation, a feedback and then a reply have been applied, and each
\* field holds its own payload
C17_Witness ==
  /\ pc = "read"
  /\ Len(CompleteLines) = 3
  /\ sent[1].type = "translation"
  /\ sent[2].type = "feedback"
  /\ sent[3] = [type |-> "reply", text |-> <<"b">>]
  /\ messages[cur].translation = <<"a">>
  /\ messages[cur].feedback = <<"a">>
  /\ messages[cur].reply = <<"b">>
  /\ messages[cur].error = Undefined

\* C18: session start with an initial assistant turn.  When a create-session
\* response carries a session identifier and an initial message, the list
\* becomes exactly one assistant message: its reply is the initial message,
\* its translation the initial translation (empty when absent), its
\* feedback is empty and its status done.  When the response carries no
\* initial message the list is left as it was.
C18_InitialTurn ==
  [][\A r \in inFlight, resp \in Responses :
       (StartSessionResponse(r, resp) /\ resp.kind = "ok") =>
         IF resp.initial # Undefined
         THEN /\ Len(messages') = 1
              /\ messages'[1].role = "assistant"
              /\ messages'[1].reply = resp.initial
              /\ messages'[1].translation =
                   (IF resp.translation = Undefined THEN Empty ELSE resp.translation)
              /\ messages'[1].feedback = Empty
              /\ messages'[1].status = "done"
         ELSE messages' = messages]_vars

\* the session has started with an initial message that came without a
\* translation
C18_Witness ==
  /\ sessionStarted
  /\ sessionId # Null
  /\ Len(messages) = 1
  /\ messages[1].role = "assistant"
  /\ messages[1].reply = <<"i">>
  /\ messages[1].translation = Empty
  /\ messages[1].feedback = Empty
  /\ messages[1].status = "done"

\* C19: send guard.  A send() is accepted (it clears the input, sets
\* loading, appends its two messages and issues the request) only when no
\* send is in flight, the text is not blank and there is a session
\* identifier; invoked otherwise it changes nothing, so no second response
\* is read while one is being read.
C19_SendGuard ==
  [][(sends' # sends \/ (pc' = "fetch" /\ pc # "fetch")) =>
       /\ ~loading
       /\ pc = "idle"
       /\ Trim(text) # <<>>
       /\ sessionId # Null
       /\ text' = Empty
       /\ loading'
       /\ Len(messages') = Len(messages) + 2]_vars

\* a response is being read and the user has pressed Start again meanwhile:
\* a send() invoked here is refused
C19_Witness ==
  /\ loading
  /\ pc = "read"
  /\ sends = 1
  /\ Trim(text) = <<>>
  /\ sessionId # Null
  /\ inFlight # {}

\* C20: loading flag.  loading is true exactly while a send() is between its
\* guard and its return, whichever way it returns; and when every request
\* ends or fails, a send in flight is followed by a state where loading is
\* false and send() is at rest, so that a later send is accepted.
C20_LoadingFlag ==
  /\ [](loading <=> pc # "idle")
  /\ (loading ~> (~loading /\ pc = "idle"))

\* a second send was accepted after the first one returned, and its response
\* ended without a terminal frame
C20_Witness ==
  /\ sends = 2
  /\ exit = "eof"
  /\ pc = "idle"
  /\ ~loading
  /\ Len(messages) >= 4
  /\ Last(messages).status = "loading"

\* C21: turn ordering.  An accepted send() appends exactly two messages, the
\* user message carrying the trimmed input and then the empty assistant
\* placeholder, and it does so in the step that issues the request, before
\* any frame or synthesized error; after every step each assistant message
\* other than the initial turn is immediately preceded by the user message
\* created with it.
C21_TurnOrdering ==
  [][/\ sends' # sends =>
          /\ Len(messages') = Len(messages) + 2
          /\ SubSeq(messages', 1, Len(messages)) = messages
          /\ messages'[Len(messages) + 1].role = "user"
          /\ messages'[Len(messages) + 1].text = Trim(text)
          /\ Fields(messages'[Len(messages) + 2]) = Fields(AssistantMessage(0))
          /\ messages'[Len(messages) + 2].role = "assistant"
          /\ pc = "idle" /\ pc' = "fetch"
     /\ \A i \in 2..Len(messages') :
          messages'[i].role = "assistant" =>
            /\ messages'[i - 1].role = "user"
            /\ messages'[i - 1].id = messages'[i].id - 1]_vars

\* a send has just been accepted after the initial turn: the trimmed text,
\* then the placeholder, and the request is awaited
C21_Witness ==
  /\ pc = "fetch"
  /\ Len(messages) = 3
  /\ messages[1].role = "assistant"
  /\ messages[2].role = "user"
  /\ messages[2].text = <<"h">>
  /\ messages[3].role = "assistant"
  /\ messages[3].status = "loading"
  /\ messages[3].reply = Empty

\* Lines the client passes over: empty, white space only, and records whose
\* type is none of reply, translation, feedback, done, error (or absent).
IsIgnored(l) == l.type \in {"empty", "blank", "other", "untyped"}

\* C22: ignored lines.  When the lines completed by a chunk are all empty,
\* white space only, or records of a type that is none of reply,
\* translation, feedback, done, error, no message changes, the buffer is
\* the text received since the last terminator as after any chunk, and the
\* read loop goes on.
C22_IgnoredLines ==
  [][(/\ pc = "read"
      /\ delivered' > delivered
      /\ CountNL(Received(delivered')) > CountNL(Received(delivered))
      /\ \A i \in (CountNL(Received(delivered)) + 1)..CountNL(Received(delivered')) :
           IsIgnored(sent[i])) =>
       /\ messages' = messages
       /\ buffer' = AfterLastNL(Received(delivered'))
       /\ pc' = "read"
       /\ loading']_vars

\* after a reply, an empty line and a record without type have been read
\* in full, and the loop is still reading
C22_Witness ==
  /\ pc = "read"
  /\ Len(CompleteLines) = 3
  /\ sent[1].type = "reply"
  /\ sent[2].type = "empty"
  /\ sent[3].type = "untyped"
  /\ messages[cur].reply = sent[1].text
  /\ messages[cur].status = "loading"

\* The records the lines of the alphabet decode to.
Frames == {JSONParse(Encode(l)) : l \in {k \in Lines : JSONParse(Encode(k)).kind = "object"}}

\* The texts a legacy call may have accumulated.
LegacyTexts == {<<>>, <<"a">>, <<"a", "b">>}

\* C23: frame application is idempotent.  On every message list the client
\* reaches, the updater of a decoded frame run twice gives the list it gives
\* when run once, for every frame type; so does the updater of the legacy
\* client, which replaces the text of the last assistant message.
C23_Idempotent ==
  messages # <<>> =>
    /\ \A d \in Frames :
         ApplyFrame(ApplyFrame(messages, d), d) = ApplyFrame(messages, d)
    /\ \A t \in LegacyTexts :
         LegacyReplaceLast(LegacyReplaceLast(messages, t), t) = LegacyReplaceLast(messages, t)

\* the open message holds a reply and an error, and each of a reply frame,
\* a done frame and the legacy updater would change the list
C23_Witness ==
  /\ pc = "read"
  /\ messages[cur].reply = <<"a">>
  /\ messages[cur].status = "error"
  /\ ApplyFrame(messages, JSONParse(Encode([type |-> "reply", text |-> <<"b">>]))) # messages
  /\ ApplyFrame(messages, JSONParse(Encode([type |-> "done", text |-> Undefined]))) # messages
  /\ LegacyReplaceLast(messages, <<"a">>) # messages

\* The records of the alphabet that are reply, translation or feedback
\* frames.
ContentFrames ==
  {d \in Frames : d.type \in {<<"reply">>, <<"translation">>, <<"feedback">>}}

\* C24: content frames of different types commute.  On every message list
\* the client reaches, applying a frame of one content type and then a frame
\* of another content type gives the list that applying them in the
\* opposite order gives.
C24_ContentCommute ==
  messages # <<>> =>
    \A d1 \in ContentFrames, d2 \in ContentFrames :
      d1.type # d2.type =>
        ApplyFrame(ApplyFrame(messages, d1), d2) = ApplyFrame(ApplyFrame(messages, d2), d1)

\* the open message holds a reply, and a new reply and a translation, in
\* either order, leave it with both
C24_Witness ==
  /\ pc = "read"
  /\ messages[cur].reply = <<"a">>
  /\ messages[cur].translation = Empty
  /\ LET rp == JSONParse(Encode([type |-> "reply", text |-> <<"b">>]))
         tr == JSONParse(Encode([type |-> "translation", text |-> <<"a">>]))
         r == ApplyFrame(ApplyFrame(messages, tr), rp)
     IN /\ r[cur].reply = <<"b">>
        /\ r[cur].translation = <<"a">>
        /\ r = ApplyFrame(ApplyFrame(messages, rp), tr)

\* C25: session start outcome.  sessionStarted becomes true only in the
\* step that stores the identifier of a successful create-session response,
\* so sessionStarted implies that sessionId is set; a start with an empty
\* required field issues no request and reports it; a response that is not
\* OK, has no session identifier, or a network error leaves sessionStarted,
\* sessionId and messages as they were and sets sessionError.
C25_SessionOutcome ==
  [][/\ (sessionStarted' /\ ~sessionStarted) =>
          \E r \in inFlight : inFlight' = inFlight \ {r} /\ sessionId' = SessionIdOf(r)
     /\ sessionStarted' => sessionId' # Null
     /\ \A r \in 1..MaxInFlight :
          StartSession(FALSE, r) =>
            /\ inFlight' = inFlight
            /\ sessionError' = AllFieldsRequired
            /\ ~sessionStarted'
     /\ \A r \in inFlight, resp \in Responses :
          (StartSessionResponse(r, resp) /\ resp.kind # "ok") =>
            /\ sessionStarted' = sessionStarted
            /\ sessionId' = sessionId
            /\ messages' = messages
            /\ sessionError' # Empty]_vars

\* a create-session response came without a session identifier while
\* another request is still awaited: the session has not started
C25_Witness ==
  /\ ~sessionStarted
  /\ sessionId = Null
  /\ sessionError = NoSessionId
  /\ inFlight # {}
  /\ messages = <<>>

\* C26: session identifier stability.  Once sessionId has been set, no step
\* changes it, also when create-session requests overlap.
C26_SessionIdStable ==
  [][sessionId # Null => sessionId' = sessionId]_vars

\* C27: overlapping legacy sends.  When a send() of the legacy client has
\* read its response to the end, the assistant message it appended holds the
\* concatenation of the `response` fields of its own response and nothing
\* of another call's, also while or after another send() runs.
C27_LegacyOwnStream ==
  \A c \in Calls :
    calls[c].exit = "eof" =>
      LegacyTextOf(calls[c].own) = ConcatResponses(calls[c].sent)

====
